---- MODULE Spec2Model ----
(***************************************************************************)
(* Model of the timing decorator watch_process_time (utils.py) and of the  *)
(* module-level Timing Record it maintains.                                *)
(*                                                                         *)
(* Durations are clock ticks (naturals); float('inf') is a value above     *)
(* every elapsed duration; Python's None is the empty tuple and a set      *)
(* value v is the one-element tuple <<v>>.  An f-string is the tuple of    *)
(* its literal pieces and interpolated values.                             *)
(***************************************************************************)
EXTENDS Integers, Sequences, FiniteSets

\* The module globals of utils.py (lines 7-11), then what is observed of the
\* calls: hist, the calls made so far, each with its function, arguments,
\* elapsed duration (None when the function raised) and exception; ret, what
\* the last call gave its caller; and for the threads pc, their position in
\* wrapper, loc, their locals, and overlap, whether two calls ran at once.
VARIABLES fastest_func, slowest_time, fastest_time, fastest_args, call_time,
          hist, ret, pc, loc, overlap

record == <<fastest_func, slowest_time, fastest_time, fastest_args, call_time>>
vars == <<fastest_func, slowest_time, fastest_time, fastest_args, call_time,
          hist, ret, pc, loc, overlap>>

\* Bounds of the model.
MaxCalls == 3
MaxDur == 3

None == <<>>
Some(x) == <<x>>

\* float('inf'): greater than every elapsed duration.
Inf == MaxDur + 1

\* end - start around a call: at least one tick of the performance counter.
Durations == 1 .. MaxDur

\* The decorated functions and the arguments they are called with.
Funcs == {"test_delay", "test_numpy_way"}
CallArgs == { [args |-> <<10>>, kwargs |-> <<>>],
              [args |-> <<>>, kwargs |-> << <<"secs", 15>> >>] }

Threads == {"t1", "t2"}

----------------------------------------------------------------------------
\* Pieces of wrapper, one per source line.

IncCallTime_Forgotten(c) == c
IncCallTime(c) == c + 1

IsFaster_Inverted(elapsed, ft) == elapsed > ft
IsFaster_OrEqual(elapsed, ft) == elapsed <= ft
IsFaster(elapsed, ft) == elapsed < ft

FormatArgs(args, kwargs) == <<"with args", args, " and kwargs ", kwargs>>

IsSlower_OrEqual(c, elapsed, ft) == c > 0 /\ elapsed >= ft
IsSlower(c, elapsed, ft) == c > 0 /\ elapsed > ft

\* slowest_time after lines 28-30.
UpdateSlowest_RunningMax(c, elapsed, ft, st) ==
    IF IsSlower(c, elapsed, ft) /\ (st = None \/ elapsed > st[1])
    THEN Some(elapsed) ELSE st
UpdateSlowest(c, elapsed, ft, st) ==
    IF IsSlower(c, elapsed, ft) THEN Some(elapsed) ELSE st

SummaryBranch(c) == c > 1

\* slowest_time / fastest_time: the quotient as numerator and denominator,
\* or the exception the division raises.
Divide(st, ft) ==
    IF st = None THEN [exc |-> "TypeError", q |-> None]
    ELSE IF ft = 0 THEN [exc |-> "ZeroDivisionError", q |-> None]
    ELSE [exc |-> "", q |-> Some(<<st[1], ft>>)]

SummaryString(ff, fa, ft) ==
    <<"Fastest test case was : ", ff, " ", fa, ",  took ", ft>>

\* What the caller of the wrapped function observes.
\*   kind   "None" (no value), "str" (the summary) or "raise"
\*   exc    which exception propagated ("func": the wrapped function's own)
\*   branch whether the call_time > 1 branch was entered
\*   x_faster the ratio computed in that branch, if it was computed
NoCall == [kind |-> "init", exc |-> "", branch |-> FALSE, value |-> None,
           x_faster |-> None]
ReturnsNone == [kind |-> "None", exc |-> "", branch |-> FALSE, value |-> None,
                x_faster |-> None]
\* Lines 34-37, reached when call_time > 1.
Summary(ff, fa, ft, st) ==
    LET d == Divide(st, ft) IN
    IF d.exc /= ""
    THEN [kind |-> "raise", exc |-> d.exc, branch |-> TRUE,
          value |-> None, x_faster |-> None]
    ELSE [kind |-> "str", exc |-> "", branch |-> TRUE,
          value |-> Some(SummaryString(ff, fa, ft)), x_faster |-> d.q]
Outcome(c, ff, fa, ft, st) ==
    IF SummaryBranch(c) THEN Summary(ff, fa, ft, st) ELSE ReturnsNone

FuncRaised == [kind |-> "raise", exc |-> "func", branch |-> FALSE,
               value |-> None, x_faster |-> None]

----------------------------------------------------------------------------
\* Sequential use: one action per wrapped call.

Init ==
    /\ fastest_func = None
    /\ slowest_time = None
    /\ fastest_time = Inf
    /\ fastest_args = None
    /\ call_time = 0
    /\ hist = <<>>
    /\ ret = NoCall
    /\ pc = [t \in Threads |-> "idle"]
    /\ loc = [t \in Threads |-> None]
    /\ overlap = FALSE

\* The wrapped function returns after `elapsed` ticks.
WrapperReturns(func, a, elapsed) ==
    LET c  == IncCallTime(call_time)
        up == IsFaster(elapsed, fastest_time)
        ff == IF up THEN Some(func) ELSE fastest_func
        ft == IF up THEN elapsed ELSE fastest_time
        fa == IF up THEN Some(FormatArgs(a.args, a.kwargs)) ELSE fastest_args
        st == UpdateSlowest(c, elapsed, ft, slowest_time)
    IN /\ Len(hist) < MaxCalls
       /\ call_time' = c
       /\ fastest_func' = ff
       /\ fastest_time' = ft
       /\ fastest_args' = fa
       /\ slowest_time' = st
       /\ ret' = Outcome(c, ff, fa, ft, st)
       /\ hist' = Append(hist, [func |-> func, args |-> a.args,
                                kwargs |-> a.kwargs, elapsed |-> Some(elapsed),
                                exc |-> Outcome(c, ff, fa, ft, st).exc])
       /\ UNCHANGED <<pc, loc, overlap>>

\* The wrapped function raises: nothing after line 19 runs.
WrapperRaises_IncrementAfterCall(func, a) ==
    /\ Len(hist) < MaxCalls
    /\ ret' = FuncRaised
    /\ hist' = Append(hist, [func |-> func, args |-> a.args,
                             kwargs |-> a.kwargs, elapsed |-> None,
                             exc |-> "func"])
    /\ UNCHANGED <<record, pc, loc, overlap>>
WrapperRaises(func, a) ==
    /\ Len(hist) < MaxCalls
    /\ call_time' = IncCallTime(call_time)
    /\ ret' = FuncRaised
    /\ hist' = Append(hist, [func |-> func, args |-> a.args,
                             kwargs |-> a.kwargs, elapsed |-> None,
                             exc |-> "func"])
    /\ UNCHANGED <<fastest_func, slowest_time, fastest_time, fastest_args,
                   pc, loc, overlap>>

Next ==
    \/ \E func \in Funcs, a \in CallArgs, elapsed \in Durations :
          WrapperReturns(func, a, elapsed)
    \/ \E func \in Funcs, a \in CallArgs : WrapperRaises(func, a)

Spec == Init /\ [][Next]_vars

----------------------------------------------------------------------------
\* Two threads, one wrapped call each, with no lock: every read and write of
\* a module global is a step of its own, and the steps of the two threads
\* interleave.  loc[t] holds the locals of thread t's call.

Active(t) == pc[t] \notin {"idle", "done"}

Goto(t, label) == pc' = [pc EXCEPT ![t] = label]

Enter(t, func, a) ==
    /\ pc[t] = "idle"
    /\ Goto(t, "load_call_time")
    /\ loc' = [loc EXCEPT ![t] =
                 [func |-> func, args |-> a.args, kwargs |-> a.kwargs,
                  elapsed |-> None, tmp |-> 0, ret |-> NoCall,
                  seq |-> Cardinality({u \in Threads : pc[u] /= "idle"}) + 1]]
    /\ overlap' = (overlap \/ \E u \in Threads \ {t} : Active(u))
    /\ UNCHANGED <<record, hist, ret>>

\* call_time += 1 is a load, an add and a store.
LoadCallTime(t) ==
    /\ pc[t] = "load_call_time"
    /\ loc' = [loc EXCEPT ![t].tmp = call_time]
    /\ Goto(t, "store_call_time")
    /\ UNCHANGED <<record, hist, ret, overlap>>

StoreCallTime(t) ==
    /\ pc[t] = "store_call_time"
    /\ call_time' = IncCallTime(loc[t].tmp)
    /\ Goto(t, "call")
    /\ UNCHANGED <<fastest_func, slowest_time, fastest_time, fastest_args,
                   hist, ret, loc, overlap>>

FuncReturns(t, elapsed) ==
    /\ pc[t] = "call"
    /\ loc' = [loc EXCEPT ![t].elapsed = Some(elapsed)]
    /\ Goto(t, "test_faster")
    /\ UNCHANGED <<record, hist, ret, overlap>>

FuncRaises(t) ==
    /\ pc[t] = "call"
    /\ loc' = [loc EXCEPT ![t].ret = FuncRaised]
    /\ Goto(t, "done")
    /\ UNCHANGED <<record, hist, ret, overlap>>

TestFaster(t) ==
    /\ pc[t] = "test_faster"
    /\ IF IsFaster(loc[t].elapsed[1], fastest_time)
       THEN Goto(t, "store_func") ELSE Goto(t, "test_slower")
    /\ UNCHANGED <<record, hist, ret, loc, overlap>>

StoreFunc(t) ==
    /\ pc[t] = "store_func"
    /\ fastest_func' = Some(loc[t].func)
    /\ Goto(t, "store_time")
    /\ UNCHANGED <<slowest_time, fastest_time, fastest_args, call_time,
                   hist, ret, loc, overlap>>

StoreTime_Local(t) ==
    /\ pc[t] = "store_time"
    /\ Goto(t, "store_args")
    /\ UNCHANGED <<record, hist, ret, loc, overlap>>
StoreTime(t) ==
    /\ pc[t] = "store_time"
    /\ fastest_time' = loc[t].elapsed[1]
    /\ Goto(t, "store_args")
    /\ UNCHANGED <<fastest_func, slowest_time, fastest_args, call_time,
                   hist, ret, loc, overlap>>

StoreArgs(t) ==
    /\ pc[t] = "store_args"
    /\ fastest_args' = Some(FormatArgs(loc[t].args, loc[t].kwargs))
    /\ Goto(t, "test_slower")
    /\ UNCHANGED <<fastest_func, slowest_time, fastest_time, call_time,
                   hist, ret, loc, overlap>>

TestSlower(t) ==
    /\ pc[t] = "test_slower"
    /\ IF IsSlower(call_time, loc[t].elapsed[1], fastest_time)
       THEN Goto(t, "store_slowest") ELSE Goto(t, "test_summary")
    /\ UNCHANGED <<record, hist, ret, loc, overlap>>

StoreSlowest(t) ==
    /\ pc[t] = "store_slowest"
    /\ slowest_time' = loc[t].elapsed
    /\ Goto(t, "test_summary")
    /\ UNCHANGED <<fastest_func, fastest_time, fastest_args, call_time,
                   hist, ret, loc, overlap>>

TestSummary(t) ==
    /\ pc[t] = "test_summary"
    /\ IF SummaryBranch(call_time)
       THEN Goto(t, "summary") /\ UNCHANGED loc
       ELSE Goto(t, "done") /\ loc' = [loc EXCEPT ![t].ret = ReturnsNone]
    /\ UNCHANGED <<record, hist, ret, overlap>>

ReturnSummary(t) ==
    /\ pc[t] = "summary"
    /\ loc' = [loc EXCEPT ![t].ret =
                 Summary(fastest_func, fastest_args, fastest_time, slowest_time)]
    /\ Goto(t, "done")
    /\ UNCHANGED <<record, hist, ret, overlap>>

NextThreads ==
    \E t \in Threads :
        \/ \E func \in Funcs, a \in CallArgs : Enter(t, func, a)
        \/ LoadCallTime(t)
        \/ StoreCallTime(t)
        \/ \E elapsed \in Durations : FuncReturns(t, elapsed)
        \/ FuncRaises(t)
        \/ TestFaster(t)
        \/ StoreFunc(t)
        \/ StoreTime(t)
        \/ StoreArgs(t)
        \/ TestSlower(t)
        \/ StoreSlowest(t)
        \/ TestSummary(t)
        \/ ReturnSummary(t)

SpecThreads == Init /\ [][NextThreads]_vars

----------------------------------------------------------------------------
\* Reading the call history: what the Timing Record should hold.

\* The calls among 1..n whose wrapped function returned.
CompletedIdx(h, n) == {k \in 1 .. n : h[k].elapsed /= None}

\* The least elapsed duration among them, or Inf when there is none.
MinElapsed(h, n) ==
    LET S == {h[k].elapsed[1] : k \in CompletedIdx(h, n)}
    IN IF S = {} THEN Inf ELSE CHOOSE m \in S : \A x \in S : m <= x

\* The earliest completed call that achieved the minimum (0 when none).
EarliestFastest(h) ==
    LET S == {k \in CompletedIdx(h, Len(h)) :
                 h[k].elapsed[1] = MinElapsed(h, Len(h))}
    IN IF S = {} THEN 0 ELSE CHOOSE k \in S : \A j \in S : k <= j

\* The completed calls slower than the fastest as it stood after them.
SlowerIdx(h) ==
    {k \in CompletedIdx(h, Len(h)) : h[k].elapsed[1] > MinElapsed(h, k)}

LastSlower(h) ==
    IF SlowerIdx(h) = {} THEN 0
    ELSE CHOOSE k \in SlowerIdx(h) : \A j \in SlowerIdx(h) : j <= k

Called == Len(hist) > 0
Last == hist[Len(hist)]

\* C1: after N calls fastest_duration is the minimum elapsed duration of the
\* calls whose wrapped function returned (positive infinity when none did),
\* and it never increases from one call to the next.
C1_FastestIsMinimum ==
    /\ [](fastest_time = MinElapsed(hist, Len(hist)))
    /\ [][fastest_time' <= fastest_time]_vars

\* A raising call and two returning calls, the later one faster.
C1_Witness ==
    /\ Len(hist) = 3
    /\ hist[1].elapsed = None
    /\ hist[2].elapsed = Some(3)
    /\ hist[3].elapsed = Some(1)
    /\ fastest_time = 1

\* C2: after N attempted calls call_count is N, whatever became of each call,
\* and every attempted call raises it by exactly one.
C2_CallCountIsAttempts ==
    /\ [](call_time = Len(hist))
    /\ [][call_time' = call_time + 1]_vars

\* One call returned, one failed in the wrapper's division, one had its
\* wrapped function raise.
C2_Witness ==
    /\ Len(hist) = 3
    /\ hist[1].exc = ""
    /\ hist[2].exc = "TypeError"
    /\ hist[3].exc = "func"
    /\ call_time = 3

\* C3: when the wrapped function raises, its exception reaches the caller, no
\* summary is returned, the four fastest/slowest fields keep their values and
\* call_count is one higher.
C3_RaiseLeavesRecord ==
    [][(hist' /= hist /\ hist'[Len(hist')].elapsed = None) =>
          /\ ret'.kind = "raise" /\ ret'.exc = "func" /\ ret'.value = None
          /\ UNCHANGED <<fastest_func, fastest_time, fastest_args, slowest_time>>
          /\ call_time' = call_time + 1]_vars

\* A raising call made when every field of the record was already set.
C3_Witness ==
    /\ ret = FuncRaised
    /\ Len(hist) = 3
    /\ fastest_func /= None
    /\ slowest_time /= None

\* C4: the first call whose wrapped function returns never takes the summary
\* branch, even after earlier raising calls; only the second and later
\* completed calls take it.
C4_FirstCompletedNoSummary ==
    /\ (Called /\ Last.elapsed /= None /\ CompletedIdx(hist, Len(hist) - 1) = {})
          => (~ret.branch /\ ret.kind = "None")
    /\ ret.branch => Cardinality(CompletedIdx(hist, Len(hist))) >= 2

\* C5: a call whose wrapped function returns and that ends with
\* call_count > 1 computes slowest_duration / fastest_duration and returns the
\* summary of the current fastest call; the wrapper itself never fails.
C5_SummaryAlwaysReturned ==
    (Called /\ Last.elapsed /= None /\ call_time > 1) =>
        /\ ret.kind = "str"
        /\ ret.value = Some(SummaryString(fastest_func, fastest_args, fastest_time))
        /\ slowest_time /= None
        /\ fastest_time /= 0
        /\ ret.x_faster = Some(<<slowest_time[1], fastest_time>>)

\* C6: f called with duration d1 and then with a strictly shorter d2: after
\* call 1 fastest_duration = d1 and nothing is returned; after call 2
\* fastest_duration = d2, fastest_function_name = f and the summary is
\* returned with the ratio d1 / d2.
C6_SlowThenFast ==
    /\ (Len(hist) = 1 /\ hist[1].elapsed /= None) =>
          (fastest_time = hist[1].elapsed[1] /\ ret.kind = "None")
    /\ (/\ Len(hist) = 2
        /\ hist[1].elapsed /= None /\ hist[2].elapsed /= None
        /\ hist[1].func = hist[2].func
        /\ hist[2].elapsed[1] < hist[1].elapsed[1]) =>
          /\ fastest_time = hist[2].elapsed[1]
          /\ fastest_func = Some(hist[2].func)
          /\ ret.kind = "str"
          /\ ret.x_faster = Some(<<hist[1].elapsed[1], hist[2].elapsed[1]>>)

\* C7: the three fastest_* fields change together, exactly when a completed
\* call is strictly faster than fastest_duration was before it, and then they
\* become that call's name, duration and captured arguments; so they always
\* describe the earliest completed call that achieved the minimum.
C7_FastestFieldsTogether ==
    /\ [](LET k == EarliestFastest(hist) IN
            IF k = 0
            THEN fastest_func = None /\ fastest_args = None /\ fastest_time = Inf
            ELSE /\ fastest_func = Some(hist[k].func)
                 /\ fastest_time = hist[k].elapsed[1]
                 /\ fastest_args = Some(FormatArgs(hist[k].args, hist[k].kwargs)))
    /\ [][hist' /= hist =>
            LET c == hist'[Len(hist')] IN
            IF c.elapsed /= None /\ c.elapsed[1] < fastest_time
            THEN /\ fastest_func' = Some(c.func)
                 /\ fastest_time' = c.elapsed[1]
                 /\ fastest_args' = Some(FormatArgs(c.args, c.kwargs))
            ELSE UNCHANGED <<fastest_func, fastest_time, fastest_args>>]_vars

\* A strictly faster second call by another function, then a tie by the first.
C7_Witness ==
    /\ Len(hist) = 3
    /\ hist[1].func = "test_delay" /\ hist[1].elapsed = Some(2)
    /\ hist[2].func = "test_numpy_way" /\ hist[2].elapsed = Some(1)
    /\ hist[3].func = "test_delay" /\ hist[3].elapsed = Some(1)
    /\ hist[2].args /= hist[3].args
    /\ fastest_func = Some("test_numpy_way")
    /\ fastest_args = Some(FormatArgs(hist[2].args, hist[2].kwargs))

\* C8: slowest_duration is the elapsed duration of the most recent completed
\* call that was strictly slower than fastest_duration as it stood after that
\* call, unset if there is none; a call that became or tied the fastest leaves
\* it unchanged.  It is not the running maximum.
C8_SlowestIsLastSlower ==
    /\ [](slowest_time = IF LastSlower(hist) = 0 THEN None
                         ELSE hist[LastSlower(hist)].elapsed)
    /\ [][(/\ hist' /= hist
           /\ hist'[Len(hist')].elapsed /= None
           /\ hist'[Len(hist')].elapsed[1] <= fastest_time')
             => slowest_time' = slowest_time]_vars

\* A smaller slower call overwrote a larger earlier one.
C8_Witness ==
    /\ Len(hist) = 3
    /\ hist[1].elapsed = Some(1)
    /\ hist[2].elapsed = Some(3)
    /\ hist[3].elapsed = Some(2)
    /\ slowest_time = Some(2)

\* The calls made by the threads, read from their locals.
Attempted == {t \in Threads : pc[t] /= "idle"}
Returned == {t \in Threads : pc[t] /= "idle" /\ loc[t].elapsed /= None}
Quiescent == \A t \in Threads : ~Active(t)
MinReturned ==
    LET S == {loc[t].elapsed[1] : t \in Returned}
    IN IF S = {} THEN Inf ELSE CHOOSE m \in S : \A x \in S : m <= x
\* The fastest_* fields all come from the call of thread t.
DescribesCall(t) ==
    /\ fastest_func = Some(loc[t].func)
    /\ fastest_time = loc[t].elapsed[1]
    /\ fastest_args = Some(FormatArgs(loc[t].args, loc[t].kwargs))

\* C9: the guarantees of the Timing Record rest on strictly sequential
\* invocation.  When the calls of the two threads did not overlap, call_count
\* is the number of attempted calls, fastest_duration is the minimum over the
\* completed calls and the fastest_* fields describe the earliest call that
\* achieved it; when they interleave, the witness below is reachable, where
\* all three fail.
C9_SequentialGuarantees ==
    (Quiescent /\ ~overlap) =>
        /\ call_time = Cardinality(Attempted)
        /\ fastest_time = MinReturned
        /\ Returned = {} => (fastest_func = None /\ fastest_args = None)
        /\ Returned /= {} =>
              \E t \in Returned :
                  /\ DescribesCall(t)
                  /\ \A u \in Returned :
                        loc[u].elapsed[1] = loc[t].elapsed[1] => loc[t].seq <= loc[u].seq

\* Both threads finished; an increment was lost, fastest_duration is above the
\* minimum, and the name comes from one call, the duration from the other.
C9_Witness ==
    /\ \A t \in Threads : pc[t] = "done"
    /\ overlap
    /\ call_time < Cardinality(Attempted)
    /\ Returned = Threads
    /\ fastest_time > MinReturned
    /\ \A t \in Threads : ~DescribesCall(t)
    /\ \E t, u \in Threads :
          /\ loc[t].func /= loc[u].func
          /\ fastest_func = Some(loc[u].func)
          /\ fastest_time = loc[t].elapsed[1]

\* C10: whenever slowest_duration is set it is strictly greater than
\* fastest_duration, which is then finite; every ratio actually computed
\* exceeds 1; fastest_function_name and fastest_call_arguments are unset
\* exactly while fastest_duration is still positive infinity.
C10_SlowestAboveFastest ==
    /\ slowest_time /= None => (slowest_time[1] > fastest_time /\ fastest_time /= Inf)
    /\ ret.x_faster /= None =>
          (ret.x_faster[1][2] > 0 /\ ret.x_faster[1][1] > ret.x_faster[1][2])
    /\ (fastest_func = None) <=> (fastest_time = Inf)
    /\ (fastest_args = None) <=> (fastest_time = Inf)
    /\ (fastest_time = Inf) <=> (CompletedIdx(hist, Len(hist)) = {})

\* A call that computed and reported a ratio.
C10_Witness ==
    /\ ret.kind = "str"
    /\ ret.x_faster = Some(<<slowest_time[1], fastest_time>>)
    /\ fastest_time > 0

====
